---- MODULE Spec2Model ----
(***************************************************************************)
(* Safe-Mutation Coordinator of gooddata_cli/mcp_server.py:                *)
(* preview_remove_duplicate_metrics, apply_remove_duplicate_metrics and    *)
(* restore_insight_from_backup, with the backup directory, the audit log   *)
(* and the remote visualization objects behind the GoodData REST API.      *)
(*                                                                         *)
(* Abstractions:                                                           *)
(*  - a visualization object is [title, buckets]; a bucket is              *)
(*    [localIdentifier, items]; an item is a measure item or another item  *)
(*    (an attribute).  A key that is absent from the JSON reads as None.   *)
(*  - hashlib.sha256(token_data)[:16] is modelled as the value it hashes,  *)
(*    the pair <<insight_id, duplicates>>: the hash is taken to be         *)
(*    collision-free, the order of the list is kept (sort_keys sorts the   *)
(*    keys of each entry, never the list).                                 *)
(*  - a failed PUT leaves the remote object as it was.                     *)
(*  - the tool server runs one call at a time; the remote object can be    *)
(*    edited by others between two HTTP requests.                          *)
(*                                                                         *)
(* Access-Graph Analyzer of scripts/analyze_permissions.py: the seven      *)
(* fetch steps, the anomaly detectors, the summary and the JSON export.    *)
(*  - a dict is the sequence of its [key, value] entries in insertion      *)
(*    order; a finding is the sequence of the pieces its f-string joins.   *)
(*  - of a user, a group and a workspace the id is kept, its other         *)
(*    attributes (name, email, parent_id) are only stored and printed.     *)
(*  - the Catalog Service fails where the script asks it for something:    *)
(*    the call of a step raises, or (steps 1 to 5) the loop over its       *)
(*    answer raises at some item; in steps 6 and 7 the call for one        *)
(*    workspace, user or group raises.                                     *)
(*  - the pattern reports only print and are left out.                     *)
(***************************************************************************)
EXTENDS Integers, Sequences, FiniteSets, TLC

VARIABLES
    remote,     \* <<workspace id, object id>> -> object held by the REST API
    backups,    \* backup path -> content of the backup file
    audit,      \* customer -> lines of audit.jsonl
    clock,      \* datetime.now(), in seconds
    pc,         \* position of the tool call in progress
    call,       \* local variables of the apply call in progress
    req,        \* the last tool invocation and its arguments
    result,     \* what the last finished tool call returned or raised
    lastPut,    \* the last PUT request sent to the REST API, with the
                \* document its call had fetched
    issued,     \* confirmation tokens returned by preview so far
    settled,    \* outcomes of apply per token since the object last changed
    calls,      \* number of tool calls started
    edits,      \* number of external edits made
    catalog,    \* what the Catalog Service holds
    graph,      \* the analyzer's data dict
    anomalies,  \* the analyzer's anomalies list
    step,       \* position of the analyzer script
    failed,     \* the fetches of the analyzer that raised
    summary,    \* the totals the analyzer printed
    output      \* the document written to permissions_data.json

toolVars == <<remote, backups, audit, clock, pc, call, req, result, lastPut,
              issued, settled, calls, edits>>

analyzerVars == <<catalog, graph, anomalies, step, failed, summary, output>>

vars == <<remote, backups, audit, clock, pc, call, req, result, lastPut,
          issued, settled, calls, edits,
          catalog, graph, anomalies, step, failed, summary, output>>

----------------------------------------------------------------------------
(* Bounds *)

MaxItems == 3
MaxCalls == 3
MaxEdits == 1
MaxClock == 1
MaxRefs == 2

----------------------------------------------------------------------------
(* Values *)

None == "<None>"

Customers == {"tpp", "dlg"}

WorkspaceOf(customer) == IF customer = "tpp" THEN "ws_tpp" ELSE "ws_dlg"

\* an object id is a string, here of nine characters
InsightA == <<"i", "n", "s", "i", "g", "h", "t", "_", "a">>
ObjectIds == {InsightA}

ShortIdLen == 8

Measure(local_id, metric_id, title) ==
    [kind |-> "measure", localIdentifier |-> local_id, id |-> metric_id,
     title |-> title]

Attribute == [kind |-> "attribute", localIdentifier |-> "a1", id |-> None,
              title |-> None]

\* measure items with every key present, and measure items where the
\* localIdentifier or the metric reference is absent
MeasureItems ==
    {Measure("m1", "rev", "Revenue"), Measure("m2", "rev", "Revenue"),
     Measure("m3", "cost", "Cost"),
     Measure(None, "rev", "Revenue"),
     Measure("m1", None, "Revenue"), Measure("m3", None, "Cost")}

Items == MeasureItems \cup {Attribute}

Bucket(local_id, items) == [localIdentifier |-> local_id, items |-> items]

Object(title, measures, view) ==
    [title |-> title,
     buckets |-> <<Bucket("measures", measures), Bucket("view", view)>>]

RECURSIVE SeqsUpTo(_, _)
SeqsUpTo(S, n) ==
    IF n = 0 THEN {<<>>}
    ELSE LET shorter == SeqsUpTo(S, n - 1)
         IN  shorter \cup {Append(s, x) : s \in shorter, x \in S}

\* a bucket that is not the measures bucket and holds a measure item too
View == <<Attribute, Measure("m2", "rev", "Revenue")>>

\* every object with at most MaxItems items in its measures bucket
AllObjects ==
    {Object("Sales", ms, View) : ms \in SeqsUpTo(Items, MaxItems)}

\* the objects the protocol runs start from
InitObjects ==
    {Object("Sales", ms, View) :
        ms \in {<<Measure("m1", "rev", "Revenue"), Measure("m2", "rev", "Revenue"),
                  Measure("m3", "cost", "Cost")>>,
                <<Measure("m1", "rev", "Revenue"), Measure("m3", "cost", "Cost")>>}}

Slots == {<<WorkspaceOf(c), o>> : c \in Customers, o \in ObjectIds}

MissingPath == [customer |-> "tpp", object_type |-> "visualizationObject",
                short_id |-> <<"n", "o", "n", "e">>, timestamp |-> 0]

\* a JSON file that was not written by _save_backup for an insight
OtherTypePath == [customer |-> "tpp", object_type |-> "analyticalDashboard",
                  short_id |-> <<"d", "a", "s", "h">>, timestamp |-> 0]

OtherTypeFile == [backed_up_at |-> 0, customer |-> "tpp",
                  object_type |-> "analyticalDashboard",
                  object_id |-> <<"d", "a", "s", "h">>,
                  data |-> Object("Board", <<>>, <<>>)]

ForeignToken == <<<<"x">>, <<>>>>

NoCall == [customer |-> None, insight_id |-> <<>>, confirmation_token |-> ForeignToken,
           fetched |-> Object("", <<>>, <<>>), data |-> Object("", <<>>, <<>>),
           duplicates |-> <<>>, seen_count |-> 0, backup_path |-> MissingPath]

NoReq == [n |-> 0, tool |-> "none", customer |-> None, insight_id |-> <<>>,
          confirmation_token |-> ForeignToken, backup_path |-> MissingPath,
          after |-> {}]

NoPut == [n |-> 0, tool |-> "none", ws |-> None, object_id |-> <<>>,
          body |-> Object("", <<>>, <<>>), ok |-> FALSE,
          backup_path |-> MissingPath, backed_up |-> FALSE,
          fetched |-> Object("", <<>>, <<>>)]

----------------------------------------------------------------------------
(* Duplicate scan, token and removal *)

EmptyMap == [k \in {} |-> None]

\* the entry of a duplicate, were it to name itself as the one it repeats
DuplicateEntryOfItself(measure, seen) ==
    [local_identifier |-> measure.localIdentifier,
     metric_id |-> measure.id,
     title |-> measure.title,
     duplicate_of |-> measure.localIdentifier]

DuplicateEntry(measure, seen) ==
    [local_identifier |-> measure.localIdentifier,
     metric_id |-> measure.id,
     title |-> measure.title,
     duplicate_of |-> seen[measure.id]]

\* the items the scan visits: the measure items of the "measures" buckets
RECURSIVE ScannedItems(_)
ScannedItems(buckets) ==
    IF buckets = <<>> THEN <<>>
    ELSE LET bucket == Head(buckets)
             here == IF bucket.localIdentifier = "measures"
                     THEN SelectSeq(bucket.items,
                                    LAMBDA item : item.kind = "measure")
                     ELSE <<>>
         IN  here \o ScannedItems(Tail(buckets))

RECURSIVE PreviewLoop(_, _, _, _)
PreviewLoop(items, current_metrics, duplicates, seen_metric_ids) ==
    IF items = <<>>
    THEN [current_metrics |-> current_metrics, duplicates |-> duplicates,
          seen_metric_ids |-> seen_metric_ids]
    ELSE LET measure == Head(items)
             entry == [local_identifier |-> measure.localIdentifier,
                       metric_id |-> measure.id, title |-> measure.title]
         IN  IF measure.id \in DOMAIN seen_metric_ids
             THEN PreviewLoop(Tail(items), Append(current_metrics, entry),
                      Append(duplicates,
                             DuplicateEntry(measure, seen_metric_ids)),
                      seen_metric_ids)
             ELSE PreviewLoop(Tail(items), Append(current_metrics, entry),
                      duplicates,
                      (measure.id :> measure.localIdentifier)
                          @@ seen_metric_ids)

PreviewScan(data) == PreviewLoop(ScannedItems(data.buckets), <<>>, <<>>, EmptyMap)

\* the scan of apply, were it to remember the last occurrence of a metric
RECURSIVE ApplyLoopLastSeen(_, _, _)
ApplyLoopLastSeen(items, duplicates, seen_metric_ids) ==
    IF items = <<>>
    THEN [duplicates |-> duplicates, seen_metric_ids |-> seen_metric_ids]
    ELSE LET measure == Head(items)
             seen == (measure.id :> measure.localIdentifier) @@ seen_metric_ids
         IN  IF measure.id \in DOMAIN seen_metric_ids
             THEN ApplyLoopLastSeen(Tail(items),
                      Append(duplicates,
                             DuplicateEntry(measure, seen_metric_ids)),
                      seen)
             ELSE ApplyLoopLastSeen(Tail(items), duplicates, seen)

RECURSIVE ApplyLoop(_, _, _)
ApplyLoop(items, duplicates, seen_metric_ids) ==
    IF items = <<>>
    THEN [duplicates |-> duplicates, seen_metric_ids |-> seen_metric_ids]
    ELSE LET measure == Head(items)
         IN  IF measure.id \in DOMAIN seen_metric_ids
             THEN ApplyLoop(Tail(items),
                      Append(duplicates,
                             DuplicateEntry(measure, seen_metric_ids)),
                      seen_metric_ids)
             ELSE ApplyLoop(Tail(items), duplicates,
                      (measure.id :> measure.localIdentifier)
                          @@ seen_metric_ids)

ApplyScan(data) == ApplyLoop(ScannedItems(data.buckets), <<>>, EmptyMap)

\* the token, were the time of the call hashed into it
ConfirmationTokenClock(insight_id, duplicates) ==
    <<insight_id, duplicates \o [i \in 1..calls |-> [called |-> i]]>>

\* the token, were it to hash the insight id only
ConfirmationTokenIdOnly(insight_id, duplicates) == <<insight_id, <<>>>>

ConfirmationToken(insight_id, duplicates) == <<insight_id, duplicates>>

\* item.get("measure", {}).get("localIdentifier")
ItemLocalId(item) ==
    IF item.kind = "measure" THEN item.localIdentifier ELSE None

\* the removal, were it to filter the buckets other than "measures"
RemoveFromOtherBucket(bucket, duplicate_local_ids) ==
    IF bucket.localIdentifier # "measures"
    THEN [bucket EXCEPT !.items =
              SelectSeq(bucket.items,
                        LAMBDA item : ItemLocalId(item) \notin duplicate_local_ids)]
    ELSE bucket

RemoveFromBucket(bucket, duplicate_local_ids) ==
    IF bucket.localIdentifier = "measures"
    THEN [bucket EXCEPT !.items =
              SelectSeq(bucket.items,
                        LAMBDA item : ItemLocalId(item) \notin duplicate_local_ids)]
    ELSE bucket

RemoveDuplicates(data, duplicates) ==
    LET duplicate_local_ids ==
            {duplicates[i].local_identifier : i \in DOMAIN duplicates}
    IN  [data EXCEPT !.buckets =
            [b \in DOMAIN data.buckets |->
                RemoveFromBucket(data.buckets[b], duplicate_local_ids)]]

----------------------------------------------------------------------------
(* Backup files and the audit log *)

ShortId(object_id) ==
    IF Len(object_id) > ShortIdLen THEN SubSeq(object_id, 1, ShortIdLen)
    ELSE object_id

BackupPath(customer, object_type, object_id) ==
    [customer |-> customer, object_type |-> object_type,
     short_id |-> ShortId(object_id), timestamp |-> clock]

\* the backup file, were it written after the in-place removal
BackupDataAfterRemoval(customer, object_type, object_id, data) ==
    [backed_up_at |-> clock, customer |-> customer,
     object_type |-> object_type, object_id |-> object_id,
     data |-> RemoveDuplicates(data, ApplyScan(data).duplicates)]

BackupData(customer, object_type, object_id, data) ==
    [backed_up_at |-> clock, customer |-> customer,
     object_type |-> object_type, object_id |-> object_id, data |-> data]

\* the backup, were the file never written
SaveBackupNothing(files, customer, object_type, object_id, data) == files

\* open(backup_path, "w") and json.dump: the file is created or overwritten
SaveBackup(files, customer, object_type, object_id, data) ==
    (BackupPath(customer, object_type, object_id)
        :> BackupData(customer, object_type, object_id, data)) @@ files

\* one line of audit.jsonl; its timestamp, which nothing reads, is left out
AuditEntry(operation, object_id, status, details) ==
    [operation |-> operation, object_id |-> object_id,
     status |-> status, details |-> details]

\* the audit log, were it opened with mode "w"
LogAuditTruncating(log, customer, operation, object_id, status, details) ==
    [log EXCEPT ![customer] =
        <<AuditEntry(operation, object_id, status, details)>>]

\* the audit log, were the line written to the log of every customer
LogAuditEverywhere(log, customer, operation, object_id, status, details) ==
    [c \in DOMAIN log |->
        Append(log[c], AuditEntry(operation, object_id, status, details))]

\* open(log_path, "a") and write one line
LogAudit(log, customer, operation, object_id, status, details) ==
    [log EXCEPT ![customer] =
        Append(@, AuditEntry(operation, object_id, status, details))]

\* the files restore can be pointed at
FileExists(path) == path \in DOMAIN backups \/ path = OtherTypePath

\* the file read, were its object_type taken to be that of an insight
ReadFileAnyType(path) ==
    IF path = OtherTypePath
    THEN [OtherTypeFile EXCEPT !.object_type = "visualizationObject"]
    ELSE backups[path]

ReadFile(path) == IF path = OtherTypePath THEN OtherTypeFile ELSE backups[path]

Raised(error) == [kind |-> "raised", success |-> FALSE, error |-> error]

Settle(customer, insight_id, token, outcome) ==
    settled \cup {[customer |-> customer, insight_id |-> insight_id,
                   token |-> token, outcome |-> outcome]}

OutcomesOf(customer, insight_id, token) ==
    {s.outcome : s \in {t \in settled : /\ t.customer = customer
                                        /\ t.insight_id = insight_id
                                        /\ t.token = token}}

Unsettle(ws, object_id) ==
    {s \in settled : ~(WorkspaceOf(s.customer) = ws /\ s.insight_id = object_id)}

----------------------------------------------------------------------------
(* preview_remove_duplicate_metrics *)

\* the preview, were it to answer from the document of an earlier preview
PreviewResultCached(insight_id, data) ==
    LET earlier == {r \in issued : r.insight_id = insight_id}
        cached == IF earlier = {} THEN data
                  ELSE (CHOOSE r \in earlier : \A q \in earlier : r.n <= q.n).snapshot
        scan == PreviewScan(cached)
    IN  [kind |-> "preview", success |-> TRUE,
         insight_id |-> insight_id,
         insight_title |-> cached.title,
         current_metric_count |-> Len(scan.current_metrics),
         current_metrics |-> scan.current_metrics,
         duplicates_found |-> scan.duplicates,
         duplicates_count |-> Len(scan.duplicates),
         metrics_after_count |-> Len(scan.current_metrics) - Len(scan.duplicates),
         confirmation_token |-> ConfirmationToken(insight_id, scan.duplicates)]

PreviewResult(insight_id, data) ==
    LET scan == PreviewScan(data)
    IN  [kind |-> "preview", success |-> TRUE,
         insight_id |-> insight_id,
         insight_title |-> data.title,
         current_metric_count |-> Len(scan.current_metrics),
         current_metrics |-> scan.current_metrics,
         duplicates_found |-> scan.duplicates,
         duplicates_count |-> Len(scan.duplicates),
         metrics_after_count |-> Len(scan.current_metrics) - Len(scan.duplicates),
         confirmation_token |-> ConfirmationToken(insight_id, scan.duplicates)]

Preview(customer, insight_id, get_ok) ==
    /\ pc = "idle"
    /\ calls < MaxCalls
    /\ calls' = calls + 1
    /\ req' = [NoReq EXCEPT !.n = calls + 1, !.tool = "preview",
                            !.customer = customer, !.insight_id = insight_id]
    /\  IF ~get_ok
        THEN \* response.raise_for_status() raises out of the tool
             /\ result' = Raised("HTTPError")
             /\ UNCHANGED <<audit, issued>>
        ELSE LET data == remote[<<WorkspaceOf(customer), insight_id>>]
                 res == PreviewResult(insight_id, data)
             IN  /\ audit' = LogAudit(audit, customer,
                                 "preview_remove_duplicate_metrics", insight_id,
                                 "preview",
                                 [duplicates_count |-> res.duplicates_count])
                 /\ result' = res
                 /\ issued' = issued \cup
                        {[n |-> calls + 1, customer |-> customer,
                          insight_id |-> insight_id,
                          token |-> res.confirmation_token, snapshot |-> data]}
    /\ UNCHANGED <<remote, backups, clock, pc, call, lastPut, settled, edits>>
    /\ UNCHANGED analyzerVars

----------------------------------------------------------------------------
(* apply_remove_duplicate_metrics *)

\* the token check, were the tokens that preview issued remembered
TokenAcceptedIfIssued(confirmation_token, expected_token) ==
    /\ confirmation_token = expected_token
    /\ \E r \in issued : r.token = confirmation_token

\* confirmation_token != expected_token is the whole check
TokenAccepted(confirmation_token, expected_token) ==
    confirmation_token = expected_token

\* the check for duplicates, were it left out
NothingToRemoveNever(duplicates) == FALSE

\* not duplicates
NothingToRemove(duplicates) == duplicates = <<>>

\* from the call to the request that precedes the PUT: GET, scan, token
\* check, backup, removal of the duplicates from the fetched document
ApplyGet(customer, insight_id, confirmation_token, get_ok, backup_ok) ==
    /\ pc = "idle"
    /\ calls < MaxCalls
    /\ calls' = calls + 1
    /\ req' = [NoReq EXCEPT !.n = calls + 1, !.tool = "apply",
                            !.customer = customer, !.insight_id = insight_id,
                            !.confirmation_token = confirmation_token,
                            !.after = OutcomesOf(customer, insight_id,
                                                 confirmation_token)]
    /\  LET data == remote[<<WorkspaceOf(customer), insight_id>>]
            scan == ApplyScan(data)
            expected_token == ConfirmationToken(insight_id, scan.duplicates)
            backup_path == BackupPath(customer, "visualizationObject", insight_id)
        IN  IF ~get_ok
            THEN /\ result' = Raised("HTTPError")
                 /\ UNCHANGED <<audit, backups, pc, call, settled>>
            ELSE IF ~TokenAccepted(confirmation_token, expected_token)
            THEN /\ audit' = LogAudit(audit, customer,
                                 "apply_remove_duplicate_metrics", insight_id,
                                 "error", [reason |-> "token_mismatch"])
                 /\ result' = [kind |-> "token_mismatch", success |-> FALSE,
                               error |-> "Invalid confirmation token"]
                 /\ settled' = Settle(customer, insight_id, confirmation_token,
                                      "REJECTED")
                 /\ UNCHANGED <<backups, pc, call>>
            ELSE IF NothingToRemove(scan.duplicates)
            THEN /\ result' = [kind |-> "no_duplicates", success |-> FALSE,
                               error |-> "No duplicate metrics found to remove."]
                 /\ UNCHANGED <<audit, backups, pc, call, settled>>
            ELSE IF ~backup_ok
            THEN \* open() or json.dump() raises out of the tool
                 /\ result' = Raised("OSError")
                 /\ UNCHANGED <<audit, backups, pc, call, settled>>
            ELSE /\ backups' = SaveBackup(backups, customer,
                                   "visualizationObject", insight_id, data)
                 /\ call' = [customer |-> customer, insight_id |-> insight_id,
                             confirmation_token |-> confirmation_token,
                             fetched |-> data,
                             data |-> RemoveDuplicates(data, scan.duplicates),
                             duplicates |-> scan.duplicates,
                             seen_count |-> Cardinality(DOMAIN scan.seen_metric_ids),
                             backup_path |-> backup_path]
                 /\ pc' = "apply_put"
                 /\ UNCHANGED <<audit, result, settled>>
    /\ UNCHANGED <<remote, clock, lastPut, issued, edits>>
    /\ UNCHANGED analyzerVars

\* requests.put(url, json=data) and what follows it
ApplyPut(put_ok) ==
    /\ pc = "apply_put"
    /\ pc' = "idle"
    /\ call' = NoCall
    /\  /\ lastPut' = [n |-> lastPut.n + 1, tool |-> "apply",
                       ws |-> WorkspaceOf(call.customer),
                       object_id |-> call.insight_id, body |-> call.data,
                       ok |-> put_ok, backup_path |-> call.backup_path,
                       backed_up |-> TRUE, fetched |-> call.fetched]
        /\ IF ~put_ok
           THEN /\ audit' = LogAudit(audit, call.customer,
                                "apply_remove_duplicate_metrics", call.insight_id,
                                "error",
                                [error |-> "HTTPError",
                                 backup_path |-> call.backup_path])
                /\ result' = [kind |-> "update_failed", success |-> FALSE,
                              error |-> "HTTPError",
                              backup_path |-> call.backup_path]
                /\ settled' = Settle(call.customer, call.insight_id,
                                     call.confirmation_token, "FAILED")
                /\ UNCHANGED remote
           ELSE /\ remote' = [remote EXCEPT
                        ![<<WorkspaceOf(call.customer), call.insight_id>>] = call.data]
                /\ audit' = LogAudit(audit, call.customer,
                                "apply_remove_duplicate_metrics", call.insight_id,
                                "success",
                                [removed_count |-> Len(call.duplicates),
                                 removed |-> call.duplicates,
                                 backup_path |-> call.backup_path])
                /\ result' = [kind |-> "applied", success |-> TRUE,
                              insight_id |-> call.insight_id,
                              backup_path |-> call.backup_path,
                              removed_duplicates |-> call.duplicates,
                              removed_count |-> Len(call.duplicates),
                              new_metric_count |-> call.seen_count]
                /\ settled' = Settle(call.customer, call.insight_id,
                                     call.confirmation_token, "APPLIED")
    /\ UNCHANGED <<backups, clock, req, issued, calls, edits>>
    /\ UNCHANGED analyzerVars

----------------------------------------------------------------------------
(* restore_insight_from_backup *)

\* the body of the PUT, were the snapshot merged into the remote object
RestoreBodyMerged(ws_id, backup) ==
    [backup.data EXCEPT !.buckets[1].items =
        remote[<<ws_id, backup.object_id>>].buckets[1].items \o @]

\* json=data: the snapshot of the backup file is the whole body of the PUT
RestoreBody(ws_id, backup) == backup.data

Restore(customer, backup_path, put_ok) ==
    /\ pc = "idle"
    /\ calls < MaxCalls
    /\ calls' = calls + 1
    /\ req' = [NoReq EXCEPT !.n = calls + 1, !.tool = "restore",
                            !.customer = customer, !.backup_path = backup_path]
    /\  IF ~FileExists(backup_path)
        THEN /\ result' = [kind |-> "backup_not_found", success |-> FALSE,
                           error |-> "Backup file not found"]
             /\ UNCHANGED <<remote, audit, lastPut, settled>>
        ELSE LET backup == ReadFile(backup_path)
             IN  IF backup.object_type # "visualizationObject"
                 THEN /\ result' = [kind |-> "unsupported_type", success |-> FALSE,
                                    error |-> "Unsupported object type for restore"]
                      /\ UNCHANGED <<remote, audit, lastPut, settled>>
                 ELSE /\ lastPut' = [n |-> lastPut.n + 1, tool |-> "restore",
                                     ws |-> WorkspaceOf(customer),
                                     object_id |-> backup.object_id,
                                     body |-> RestoreBody(WorkspaceOf(customer),
                                                          backup),
                                     ok |-> put_ok,
                                     backup_path |-> MissingPath,
                                     backed_up |-> FALSE,
                                     fetched |-> NoPut.fetched]
                      /\ IF ~put_ok
                         THEN /\ audit' = LogAudit(audit, customer,
                                              "restore_insight_from_backup",
                                              backup.object_id, "error",
                                              [error |-> "HTTPError",
                                               backup_path |-> backup_path])
                              /\ result' = [kind |-> "restore_failed",
                                            success |-> FALSE,
                                            error |-> "HTTPError"]
                              /\ UNCHANGED <<remote, settled>>
                         ELSE /\ remote' = [remote EXCEPT
                                      ![<<WorkspaceOf(customer), backup.object_id>>]
                                          = RestoreBody(WorkspaceOf(customer),
                                                        backup)]
                              /\ audit' = LogAudit(audit, customer,
                                              "restore_insight_from_backup",
                                              backup.object_id, "success",
                                              [restored_from |-> backup_path,
                                               original_backup_time |->
                                                   backup.backed_up_at])
                              /\ result' = [kind |-> "restored", success |-> TRUE,
                                            object_id |-> backup.object_id,
                                            object_type |-> backup.object_type,
                                            restored_from |-> backup_path,
                                            original_backup_time |->
                                                backup.backed_up_at]
                              /\ settled' = Unsettle(WorkspaceOf(customer),
                                                     backup.object_id)
    /\ UNCHANGED <<backups, clock, pc, call, issued, edits>>
    /\ UNCHANGED analyzerVars

----------------------------------------------------------------------------
(* The environment: other writers of the remote object, and time *)

SetMeasures(object, items) ==
    [object EXCEPT !.buckets[1].items = items]

RemoveAt(s, i) == SubSeq(s, 1, i - 1) \o SubSeq(s, i + 1, Len(s))

\* the measure items an external edit appends: a further duplicate and a
\* measure of another metric
EditMeasures ==
    {Measure("m4", "rev", "Revenue"), Measure("m4", "margin", "Margin")}

\* the documents one external edit can turn an object into: another title,
\* one more measure, the last item gone, a measure renamed
EditsOf(object) ==
    LET items == object.buckets[1].items
        last == Len(items)
    IN  {[object EXCEPT !.title = "Sales (edited)"]}
        \cup {SetMeasures(object, Append(items, item)) : item \in EditMeasures}
        \cup {SetMeasures(object, RemoveAt(items, i)) : i \in {last} \ {0}}
        \cup {SetMeasures(object, [items EXCEPT ![i].title = "Renamed"]) :
                 i \in {j \in DOMAIN items : items[j].kind = "measure"}}

ExternalEdit(slot) ==
    /\ edits < MaxEdits
    /\ edits' = edits + 1
    /\ \E object \in EditsOf(remote[slot]) \ {remote[slot]} :
        remote' = [remote EXCEPT ![slot] = object]
    /\ settled' = Unsettle(slot[1], slot[2])
    /\ UNCHANGED <<backups, audit, clock, pc, call, req, result, lastPut,
                   issued, calls>>
    /\ UNCHANGED analyzerVars

Tick ==
    /\ clock < MaxClock
    /\ clock' = clock + 1
    /\ UNCHANGED <<remote, backups, audit, pc, call, req, result, lastPut,
                   issued, settled, calls, edits>>
    /\ UNCHANGED analyzerVars

----------------------------------------------------------------------------
(* Access-Graph Analyzer: dicts and the Catalog Service *)

\* key in dict
Has(dict, key) == \E i \in DOMAIN dict : dict[i].key = key

\* dict.get(key) and dict[key] of a key that is there; an absent key reads
\* as the empty list (None is falsy as the empty list is)
Get(dict, key) ==
    IF Has(dict, key)
    THEN dict[CHOOSE i \in DOMAIN dict : dict[i].key = key].value
    ELSE <<>>

\* defaultdict(list): dict[key].append(value)
AppendTo(dict, key, value) ==
    IF Has(dict, key)
    THEN [i \in DOMAIN dict |->
             IF dict[i].key = key
             THEN [dict[i] EXCEPT !.value = Append(@, value)]
             ELSE dict[i]]
    ELSE Append(dict, [key |-> key, value |-> <<value>>])

\* dict[key] = value
Put(dict, key, value) ==
    IF Has(dict, key)
    THEN [i \in DOMAIN dict |->
             IF dict[i].key = key THEN [dict[i] EXCEPT !.value = value]
             ELSE dict[i]]
    ELSE Append(dict, [key |-> key, value |-> value])

ManyGroups == 3

DeclUser(id, user_groups) == [id |-> id, user_groups |-> user_groups]

DeclGroup(id, parents) == [id |-> id, parents |-> parents]

\* a declarative permission; a permission without assignee has None twice
Permission(assignee_id, assignee_type, name) ==
    [assignee_id |-> assignee_id, assignee_type |-> assignee_type, name |-> name]

Catalog(decl_users, decl_groups, w1_permissions, w2_permissions) ==
    [users |-> <<"u1", "u2">>,
     groups |-> <<"g1", "g2">>,
     decl_users |-> decl_users,
     decl_groups |-> decl_groups,
     workspaces |-> <<"w1", "w2">>,
     permissions |-> <<[key |-> "w1", value |-> w1_permissions],
                       [key |-> "w2", value |-> w2_permissions]>>,
     user_permissions |->
         <<[key |-> "u1", value |-> <<[workspace_id |-> "w1",
                                        permission |-> "ANALYZE"]>>],
           [key |-> "u2", value |-> <<>>]>>,
     group_permissions |->
         <<[key |-> "g1", value |-> <<>>],
           [key |-> "g2", value |-> <<[workspace_id |-> "w1",
                                        permission |-> "VIEW"]>>]>>]

\* the catalogs the runs with failing fetches start from: every group with
\* members, a child or a permission; groups with none of them; and users of
\* more than ManyGroups groups, listed in different orders
Catalogs ==
    {Catalog(<<DeclUser("u1", <<"g1", "g2">>), DeclUser("u2", <<"g1">>)>>,
             <<DeclGroup("g1", <<>>), DeclGroup("g2", <<"g1">>)>>,
             <<Permission("u1", "user", "ANALYZE"),
               Permission("g2", "userGroup", "VIEW")>>,
             <<>>),
     Catalog(<<DeclUser("u1", <<"g2">>), DeclUser("u2", <<"g2">>)>>,
             <<DeclGroup("g1", <<>>), DeclGroup("g2", <<>>)>>,
             <<Permission("g2", "userGroup", "VIEW")>>,
             <<Permission("u2", "user", "MANAGE")>>),
     Catalog(<<DeclUser("u1", <<"g3", "g4", "g5", "g6">>),
               DeclUser("u2", <<"g6", "g5", "g4", "g3">>)>>,
             <<DeclGroup("g1", <<>>), DeclGroup("g2", <<>>)>>,
             <<Permission("u1", "user", "ANALYZE"),
               Permission("u2", "user", "VIEW")>>,
             <<>>)}

\* the group references of one declarative user: at most MaxRefs of them
GroupLists == SeqsUpTo({"g1", "g2"}, MaxRefs)

ParentLists == {<<>>, <<"g1">>, <<"g2">>}

PermissionLists ==
    {<<>>,
     <<Permission("u1", "user", "ANALYZE")>>,
     <<Permission("g1", "userGroup", "VIEW")>>,
     <<Permission("g1", "user", "VIEW")>>,
     <<Permission(None, None, "VIEW")>>}

\* every catalog of two users, two groups and two workspaces with these
\* memberships, parents and permissions
AllCatalogs ==
    {Catalog(<<DeclUser("u1", m1), DeclUser("u2", m2)>>,
             <<DeclGroup("g1", p1), DeclGroup("g2", p2)>>, a1, <<>>) :
        m1 \in GroupLists, m2 \in GroupLists,
        p1 \in ParentLists, p2 \in ParentLists, a1 \in PermissionLists}

EmptyData ==
    [users |-> <<>>, groups |-> <<>>, workspaces |-> <<>>,
     user_to_groups |-> <<>>, group_to_users |-> <<>>,
     group_hierarchy |-> <<>>, workspace_permissions |-> <<>>,
     user_permissions |-> <<>>, group_permissions |-> <<>>]

NoSummary == [users |-> 0, groups |-> 0, workspaces |-> 0, anomalies |-> 0]

NoOutput == [written |-> FALSE]

\* the tools' side of a state in which the analyzer script is not running
AnalyzerNotRun ==
    /\ catalog = Catalog(<<>>, <<>>, <<>>, <<>>)
    /\ graph = EmptyData
    /\ anomalies = <<>>
    /\ step = "not_run"
    /\ failed = {}
    /\ summary = NoSummary
    /\ output = NoOutput

----------------------------------------------------------------------------
(* Access-Graph Analyzer: the fetch steps *)

\* the numbers of items a loop over a list can have handled when the step
\* raises: none when the call raised, fewer than all when the loop did
FailurePoints(list) == IF list = <<>> THEN {0} ELSE 0..(Len(list) - 1)

Handled(list, raises) == IF raises THEN FailurePoints(list) ELSE {Len(list)}

\* the step after a fetch step, were an exception to end the script
AfterFetchAborting(raises, next) == IF raises THEN "aborted" ELSE next

\* except Exception: print the error, go on with the next step
AfterFetch(raises, next) == next

\* the failures so far: the step, and in steps 6 and 7 the id asked for
Failed(raises, name) == IF raises THEN failed \cup {<<name>>} ELSE failed

\* the dict kept for a user, a group or a workspace
Entity(id) == [id |-> id]

Entities(ids, done) == [i \in 1..done |-> Entity(ids[i])]

\* 1. users = sdk.catalog_user.list_users(); data["users"].append(...)
FetchUsers(raises, done) ==
    /\ step = "users"
    /\ done \in Handled(catalog.users, raises)
    /\ graph' = [graph EXCEPT !.users = Entities(catalog.users, done)]
    /\ failed' = Failed(raises, "users")
    /\ step' = AfterFetch(raises, "groups")
    /\ UNCHANGED <<catalog, anomalies, summary, output>>
    /\ UNCHANGED toolVars

\* 2. groups = sdk.catalog_user.list_user_groups()
FetchGroups(raises, done) ==
    /\ step = "groups"
    /\ done \in Handled(catalog.groups, raises)
    /\ graph' = [graph EXCEPT !.groups = Entities(catalog.groups, done)]
    /\ failed' = Failed(raises, "groups")
    /\ step' = AfterFetch(raises, "memberships")
    /\ UNCHANGED <<catalog, anomalies, summary, output>>
    /\ UNCHANGED toolVars

\* the (user id, group id) pairs in the order the loops of step 3 meet them
RECURSIVE MembershipPairs(_)
MembershipPairs(decl_users) ==
    IF decl_users = <<>> THEN <<>>
    ELSE LET u == Head(decl_users)
         IN  [i \in DOMAIN u.user_groups |-> <<u.id, u.user_groups[i]>>]
                 \o MembershipPairs(Tail(decl_users))

\* the two appends, were the second one left out
AddMembershipOneWay(d, user_id, group_id) ==
    [d EXCEPT !.user_to_groups = AppendTo(@, user_id, group_id)]

\* data["user_to_groups"][u.id].append(ug.id)
\* data["group_to_users"][ug.id].append(u.id)
AddMembership(d, user_id, group_id) ==
    [d EXCEPT !.user_to_groups = AppendTo(@, user_id, group_id),
              !.group_to_users = AppendTo(@, group_id, user_id)]

RECURSIVE AddMemberships(_, _)
AddMemberships(d, pairs) ==
    IF pairs = <<>> THEN d
    ELSE AddMemberships(AddMembership(d, Head(pairs)[1], Head(pairs)[2]),
                        Tail(pairs))

\* 3. decl_users = sdk.catalog_user.get_declarative_users()
FetchMemberships(raises, done) ==
    /\ step = "memberships"
    /\ LET pairs == MembershipPairs(catalog.decl_users)
       IN  /\ done \in Handled(pairs, raises)
           /\ graph' = AddMemberships(graph, SubSeq(pairs, 1, done))
    /\ failed' = Failed(raises, "memberships")
    /\ step' = AfterFetch(raises, "hierarchy")
    /\ UNCHANGED <<catalog, anomalies, summary, output>>
    /\ UNCHANGED toolVars

\* the (parent id, child id) pairs in the order the loops of step 4 meet them
RECURSIVE ParentPairs(_)
ParentPairs(decl_groups) ==
    IF decl_groups = <<>> THEN <<>>
    ELSE LET g == Head(decl_groups)
         IN  [i \in DOMAIN g.parents |-> <<g.parents[i], g.id>>]
                 \o ParentPairs(Tail(decl_groups))

\* data["group_hierarchy"][parent.id].append(g.id)
RECURSIVE AddChildren(_, _)
AddChildren(d, pairs) ==
    IF pairs = <<>> THEN d
    ELSE AddChildren([d EXCEPT !.group_hierarchy =
                          AppendTo(@, Head(pairs)[1], Head(pairs)[2])],
                     Tail(pairs))

\* 4. decl_groups = sdk.catalog_user.get_declarative_user_groups()
FetchHierarchy(raises, done) ==
    /\ step = "hierarchy"
    /\ LET pairs == ParentPairs(catalog.decl_groups)
       IN  /\ done \in Handled(pairs, raises)
           /\ graph' = AddChildren(graph, SubSeq(pairs, 1, done))
    /\ failed' = Failed(raises, "hierarchy")
    /\ step' = AfterFetch(raises, "workspaces")
    /\ UNCHANGED <<catalog, anomalies, summary, output>>
    /\ UNCHANGED toolVars

\* 5. workspaces = sdk.catalog_workspace.list_workspaces()
FetchWorkspaces(raises, done) ==
    /\ step = "workspaces"
    /\ done \in Handled(catalog.workspaces, raises)
    /\ graph' = [graph EXCEPT !.workspaces = Entities(catalog.workspaces, done)]
    /\ failed' = Failed(raises, "workspaces")
    /\ step' = AfterFetch(raises, "permissions")
    /\ UNCHANGED <<catalog, anomalies, summary, output>>
    /\ UNCHANGED toolVars

Ids(entities) == {entities[i].id : i \in DOMAIN entities}

PermEntry(ws_id, p) ==
    [workspace_id |-> ws_id, assignee_id |-> p.assignee_id,
     assignee_type |-> p.assignee_type, name |-> p.name]

\* data["workspace_permissions"][ws_id].append(perm_entry), for each p
RECURSIVE RecordPermissions(_, _, _)
RecordPermissions(dict, ws_id, perms) ==
    IF perms = <<>> THEN dict
    ELSE RecordPermissions(AppendTo(dict, ws_id, PermEntry(ws_id, Head(perms))),
                           ws_id, Tail(perms))

\* step 6, were it to ask the Catalog Service for its workspaces again
PermissionsLoopEveryWorkspace(dict, workspaces, denied) ==
    LET held == SelectSeq(catalog.permissions, LAMBDA e : e.value # <<>>)
    IN  [i \in DOMAIN held |->
            [key |-> held[i].key,
             value |-> [k \in DOMAIN held[i].value |->
                           PermEntry(held[i].key, held[i].value[k])]]]

\* the loop of step 6 over data["workspaces"]; a workspace whose call
\* raises is passed over
RECURSIVE PermissionsLoop(_, _, _)
PermissionsLoop(dict, workspaces, denied) ==
    IF workspaces = <<>> THEN dict
    ELSE LET ws_id == Head(workspaces).id
         IN  PermissionsLoop(
                 IF ws_id \in denied THEN dict
                 ELSE RecordPermissions(dict, ws_id, Get(catalog.permissions, ws_id)),
                 Tail(workspaces), denied)

\* 6. sdk.catalog_permission.get_declarative_permissions(ws_id) per workspace
FetchPermissions(denied) ==
    /\ step = "permissions"
    /\ denied \subseteq Ids(graph.workspaces)
    /\ graph' = [graph EXCEPT !.workspace_permissions =
                    PermissionsLoop(@, graph.workspaces, denied)]
    /\ failed' = failed \cup {<<"permissions", ws_id>> : ws_id \in denied}
    /\ step' = "entity_permissions"
    /\ UNCHANGED <<catalog, anomalies, summary, output>>
    /\ UNCHANGED toolVars

\* one loop of step 7; an entity whose call raises gets no key
RECURSIVE EntityPermissionsLoop(_, _, _, _)
EntityPermissionsLoop(dict, entities, held, unavailable) ==
    IF entities = <<>> THEN dict
    ELSE LET id == Head(entities).id
         IN  EntityPermissionsLoop(
                 IF id \in unavailable THEN dict ELSE Put(dict, id, Get(held, id)),
                 Tail(entities), held, unavailable)

\* 7. sdk.catalog_user.get_user_permissions(id) per user,
\*    sdk.catalog_user.get_user_group_permissions(id) per group
FetchEntityPermissions(no_users, no_groups) ==
    /\ step = "entity_permissions"
    /\ no_users \subseteq Ids(graph.users)
    /\ no_groups \subseteq Ids(graph.groups)
    /\ graph' = [graph EXCEPT
                  !.user_permissions =
                      EntityPermissionsLoop(@, graph.users,
                                            catalog.user_permissions, no_users),
                  !.group_permissions =
                      EntityPermissionsLoop(@, graph.groups,
                                            catalog.group_permissions, no_groups)]
    /\ failed' = failed \cup {<<"user_permissions", id>> : id \in no_users}
                        \cup {<<"group_permissions", id>> : id \in no_groups}
    /\ step' = "detect"
    /\ UNCHANGED <<catalog, anomalies, summary, output>>
    /\ UNCHANGED toolVars

----------------------------------------------------------------------------
(* Access-Graph Analyzer: anomaly detection, summary, export *)

\* the entries of all workspaces, in the order of the dict and of its lists
RECURSIVE Assignments(_)
Assignments(dict) ==
    IF dict = <<>> THEN <<>>
    ELSE Head(dict).value \o Assignments(Tail(dict))

\* Anomaly 1
DirectAssignments(d) ==
    LET direct == SelectSeq(Assignments(d.workspace_permissions),
                            LAMBDA p : p.assignee_type = "user")
    IN  [i \in DOMAIN direct |->
            <<"Direct user permission: ", direct[i].assignee_id, " has '",
              direct[i].name, "' on ", direct[i].workspace_id>>]

\* Anomaly 2
ExcessiveGroups(d) ==
    LET many == SelectSeq(d.user_to_groups,
                          LAMBDA e : Len(e.value) > ManyGroups)
    IN  [i \in DOMAIN many |->
            <<"User ", many[i].key, " is in ", ToString(Len(many[i].value)),
              " groups">>]

\* Anomaly 3, were a workspace without a key in the index passed over
UnprotectedWorkspacesPresentOnly(d) ==
    LET bare == SelectSeq(d.workspaces,
                    LAMBDA ws : /\ Has(d.workspace_permissions, ws.id)
                                /\ Get(d.workspace_permissions, ws.id) = <<>>)
    IN  [i \in DOMAIN bare |->
            <<"Workspace ", bare[i].id, " has no explicit permissions">>]

\* Anomaly 3
UnprotectedWorkspaces(d) ==
    LET bare == SelectSeq(d.workspaces,
                    LAMBDA ws : \/ ~Has(d.workspace_permissions, ws.id)
                                \/ Get(d.workspace_permissions, ws.id) = <<>>)
    IN  [i \in DOMAIN bare |->
            <<"Workspace ", bare[i].id, " has no explicit permissions">>]

\* Anomaly 4, were the workspace permissions not looked at
OrphanedGroupsUnused(d) ==
    LET orphaned == SelectSeq(d.groups,
                        LAMBDA g : /\ Get(d.group_to_users, g.id) = <<>>
                                   /\ ~Has(d.group_hierarchy, g.id))
    IN  [i \in DOMAIN orphaned |-> <<"Orphaned group: ", orphaned[i].id>>]

\* Anomaly 4
OrphanedGroups(d) ==
    LET all == Assignments(d.workspace_permissions)
        used_groups == {all[i].assignee_id :
                           i \in {j \in DOMAIN all :
                                     all[j].assignee_type = "userGroup"}}
        orphaned == SelectSeq(d.groups,
                        LAMBDA g : /\ Get(d.group_to_users, g.id) = <<>>
                                   /\ ~Has(d.group_hierarchy, g.id)
                                   /\ g.id \notin used_groups)
    IN  [i \in DOMAIN orphaned |-> <<"Orphaned group: ", orphaned[i].id>>]

\* the list, were the orphaned groups looked for first
FindingsOrphansFirst(d) ==
    OrphanedGroups(d) \o DirectAssignments(d) \o ExcessiveGroups(d)
        \o UnprotectedWorkspaces(d)

\* anomalies = [] and the appends of the checks 1 to 4, in their order
Findings(d) ==
    DirectAssignments(d) \o ExcessiveGroups(d)
        \o UnprotectedWorkspaces(d) \o OrphanedGroups(d)

\* dict[key] on a defaultdict(list): a missing key is added with []
Subscript(dict, key) ==
    IF Has(dict, key) THEN dict ELSE Append(dict, [key |-> key, value |-> <<>>])

\* the index after check 3, were it to subscript without asking "in" first
RECURSIVE AfterUnprotectedCheckEager(_, _)
AfterUnprotectedCheckEager(dict, workspaces) ==
    IF workspaces = <<>> THEN dict
    ELSE AfterUnprotectedCheckEager(Subscript(dict, Head(workspaces).id),
                                    Tail(workspaces))

\* the index after check 3: ws["id"] not in dict or not dict[ws["id"]]
\* subscripts the keys that are there only
RECURSIVE AfterUnprotectedCheck(_, _)
AfterUnprotectedCheck(dict, workspaces) ==
    IF workspaces = <<>> THEN dict
    ELSE LET ws_id == Head(workspaces).id
         IN  AfterUnprotectedCheck(
                 IF ~Has(dict, ws_id) THEN dict ELSE Subscript(dict, ws_id),
                 Tail(workspaces))

\* the anomaly checks 1 to 4 append to anomalies; check 5 only prints.
\* The other reads of the dicts are .get(), "in", .items() and .values()
Detect ==
    /\ step = "detect"
    /\ anomalies' = Findings(graph)
    /\ graph' = [graph EXCEPT !.workspace_permissions =
                    AfterUnprotectedCheck(@, graph.workspaces)]
    /\ step' = "summary"
    /\ UNCHANGED <<catalog, failed, summary, output>>
    /\ UNCHANGED toolVars

Summarize ==
    /\ step = "summary"
    /\ summary' = [users |-> Len(graph.users), groups |-> Len(graph.groups),
                   workspaces |-> Len(graph.workspaces),
                   anomalies |-> Len(anomalies)]
    /\ step' = "export"
    /\ UNCHANGED <<catalog, graph, anomalies, failed, output>>
    /\ UNCHANGED toolVars

\* json.dump(output_data, f, indent=2)
Export ==
    /\ step = "export"
    /\ output' = [written |-> TRUE,
                  users |-> graph.users, groups |-> graph.groups,
                  workspaces |-> graph.workspaces,
                  user_to_groups |-> graph.user_to_groups,
                  group_to_users |-> graph.group_to_users,
                  group_hierarchy |-> graph.group_hierarchy,
                  workspace_permissions |-> graph.workspace_permissions,
                  user_permissions |-> graph.user_permissions,
                  group_permissions |-> graph.group_permissions,
                  anomalies |-> anomalies]
    /\ step' = "done"
    /\ UNCHANGED <<catalog, graph, anomalies, failed, summary>>
    /\ UNCHANGED toolVars

----------------------------------------------------------------------------
(* Specifications *)

HeldTokens == {r.token : r \in issued} \cup {ForeignToken}

InitTools(objects) ==
    /\ \E object \in objects : remote = [slot \in Slots |-> object]
    /\ backups = [path \in {} |-> OtherTypeFile]
    /\ audit = [customer \in Customers |-> <<>>]
    /\ clock = 0
    /\ pc = "idle"
    /\ call = NoCall
    /\ req = NoReq
    /\ result = [kind |-> "none", success |-> FALSE]
    /\ lastPut = NoPut
    /\ issued = {}
    /\ settled = {}
    /\ calls = 0
    /\ edits = 0

\* the tool server on one of the objects; the analyzer script is not run
InitWith(objects) == InitTools(objects) /\ AnalyzerNotRun

Init == InitWith(InitObjects)

\* the calls one customer's session makes, their requests failing or not,
\* and what happens around them
NextOf(customers) ==
    \/ \E customer \in customers, insight_id \in ObjectIds, get_ok \in BOOLEAN :
          Preview(customer, insight_id, get_ok)
    \/ \E customer \in customers, insight_id \in ObjectIds, token \in HeldTokens,
          get_ok \in BOOLEAN, backup_ok \in BOOLEAN :
          ApplyGet(customer, insight_id, token, get_ok, backup_ok)
    \/ \E put_ok \in BOOLEAN : ApplyPut(put_ok)
    \/ \E customer \in customers,
          path \in DOMAIN backups \cup {MissingPath, OtherTypePath},
          put_ok \in BOOLEAN :
          Restore(customer, path, put_ok)
    \/ \E customer \in customers, insight_id \in ObjectIds :
          ExternalEdit(<<WorkspaceOf(customer), insight_id>>)
    \/ Tick

Next == NextOf({"tpp"})

Spec == Init /\ [][Next]_vars

\* the tools run on every object of the bounded family, every request
\* succeeding and nobody else writing
InitScan == InitWith(AllObjects)

NextScan ==
    \/ Preview("tpp", InsightA, TRUE)
    \/ \E token \in HeldTokens : ApplyGet("tpp", InsightA, token, TRUE, TRUE)
    \/ ApplyPut(TRUE)

SpecScan == InitScan /\ [][NextScan]_vars

\* the tokens a caller can come with who has not called preview: those of
\* the objects the runs start from, known from an earlier session
KnownTokens ==
    {ConfirmationToken(InsightA, PreviewScan(object).duplicates) :
        object \in InitObjects}

\* a session in which apply is called with or without previews before it,
\* every request succeeding, and others writing the object
NextStateless ==
    \/ Preview("tpp", InsightA, TRUE)
    \/ \E token \in HeldTokens \cup KnownTokens :
          ApplyGet("tpp", InsightA, token, TRUE, TRUE)
    \/ ApplyPut(TRUE)
    \/ ExternalEdit(<<WorkspaceOf("tpp"), InsightA>>)
    \/ Tick

SpecStateless == Init /\ [][NextStateless]_vars

\* the sessions of both customers, their requests failing or not, with
\* nobody else writing
NextCustomers ==
    \/ \E customer \in Customers, get_ok \in BOOLEAN :
          Preview(customer, InsightA, get_ok)
    \/ \E customer \in Customers, token \in HeldTokens,
          get_ok \in BOOLEAN, backup_ok \in BOOLEAN :
          ApplyGet(customer, InsightA, token, get_ok, backup_ok)
    \/ \E put_ok \in BOOLEAN : ApplyPut(put_ok)
    \/ \E customer \in Customers,
          path \in DOMAIN backups \cup {MissingPath, OtherTypePath},
          put_ok \in BOOLEAN :
          Restore(customer, path, put_ok)
    \/ Tick

SpecCustomers == Init /\ [][NextCustomers]_vars

\* a session that finds in the backup directory the file an earlier apply
\* of the customer has written
InitRestore ==
    /\ clock = 0
    /\ \E object \in InitObjects, saved \in InitObjects :
          /\ remote = [slot \in Slots |-> object]
          /\ backups = SaveBackup([path \in {} |-> OtherTypeFile], "tpp",
                                  "visualizationObject", InsightA, saved)
    /\ audit = [customer \in Customers |-> <<>>]
    /\ pc = "idle"
    /\ call = NoCall
    /\ req = NoReq
    /\ result = [kind |-> "none", success |-> FALSE]
    /\ lastPut = NoPut
    /\ issued = {}
    /\ settled = {}
    /\ calls = 0
    /\ edits = 0
    /\ AnalyzerNotRun

\* restores by either customer, their PUTs failing or not, with others
\* writing the objects between them
NextRestore ==
    \/ \E customer \in Customers,
          path \in DOMAIN backups \cup {MissingPath, OtherTypePath},
          put_ok \in BOOLEAN :
          Restore(customer, path, put_ok)
    \/ \E slot \in Slots : ExternalEdit(slot)
    \/ Tick

SpecRestore == InitRestore /\ [][NextRestore]_vars

\* a run of the analyzer script on one of the catalogs
InitAnalyzerWith(catalogs) ==
    /\ InitTools({Object("Sales", <<>>, View)})
    /\ catalog \in catalogs
    /\ graph = EmptyData
    /\ anomalies = <<>>
    /\ step = "users"
    /\ failed = {}
    /\ summary = NoSummary
    /\ output = NoOutput

InitAnalyzer == InitAnalyzerWith(Catalogs)

\* the script, each fetch raising or not
NextAnalyzer ==
    \/ \E raises \in BOOLEAN, done \in 0..Len(catalog.users) :
          FetchUsers(raises, done)
    \/ \E raises \in BOOLEAN, done \in 0..Len(catalog.groups) :
          FetchGroups(raises, done)
    \/ \E raises \in BOOLEAN,
          done \in 0..Len(MembershipPairs(catalog.decl_users)) :
          FetchMemberships(raises, done)
    \/ \E raises \in BOOLEAN,
          done \in 0..Len(ParentPairs(catalog.decl_groups)) :
          FetchHierarchy(raises, done)
    \/ \E raises \in BOOLEAN, done \in 0..Len(catalog.workspaces) :
          FetchWorkspaces(raises, done)
    \/ \E denied \in SUBSET Ids(graph.workspaces) : FetchPermissions(denied)
    \/ \E no_users \in SUBSET Ids(graph.users),
          no_groups \in SUBSET Ids(graph.groups) :
          FetchEntityPermissions(no_users, no_groups)
    \/ Detect
    \/ Summarize
    \/ Export

SpecAnalyzer == InitAnalyzer /\ [][NextAnalyzer]_vars

\* the script runs on: no step waits for anything
FairSpecAnalyzer == SpecAnalyzer /\ WF_vars(NextAnalyzer)

\* the script on every catalog of the bounded family, no fetch raising
InitGraph == InitAnalyzerWith(AllCatalogs)

NextGraph ==
    \/ FetchUsers(FALSE, Len(catalog.users))
    \/ FetchGroups(FALSE, Len(catalog.groups))
    \/ FetchMemberships(FALSE, Len(MembershipPairs(catalog.decl_users)))
    \/ FetchHierarchy(FALSE, Len(ParentPairs(catalog.decl_groups)))
    \/ FetchWorkspaces(FALSE, Len(catalog.workspaces))
    \/ FetchPermissions({})
    \/ FetchEntityPermissions({}, {})
    \/ Detect
    \/ Summarize
    \/ Export

SpecGraph == InitGraph /\ [][NextGraph]_vars

----------------------------------------------------------------------------
(* Properties *)

SlotOf(customer, object_id) == <<WorkspaceOf(customer), object_id>>

\* the step that starts a tool call
Starts(tool) == req'.n # req.n /\ req'.tool = tool

\* the step that sends the PUT of apply
ApplyPuts == pc = "apply_put" /\ pc' = "idle"

\* the token a preview issued is presented to apply for the same object
PresentedTo(r) ==
    /\ Starts("apply")
    /\ req'.customer = r.customer
    /\ req'.insight_id = r.insight_id
    /\ req'.confirmation_token = r.token

LastEntry(log) == log[Len(log)]

\* exactly one line was appended to the customer's log, nothing else changed
AppendsOneEntry(customer) ==
    /\ Len(audit'[customer]) = Len(audit[customer]) + 1
    /\ SubSeq(audit'[customer], 1, Len(audit[customer])) = audit[customer]
    /\ \A other \in Customers \ {customer} : audit'[other] = audit[other]

\* C1 as stated: when the object a token was issued for has changed in any
\* way since the preview, apply with that token writes no backup, goes on to
\* no PUT and leaves the remote object alone.
C1_AnyEditRejected ==
    [][\A r \in issued :
          (PresentedTo(r) /\ remote[SlotOf(r.customer, r.insight_id)] # r.snapshot)
              => (backups' = backups /\ remote' = remote /\ pc' = "idle")]_vars

\* C1 amended: when the list of duplicates of the object has changed since
\* the preview that issued the token, apply with that token (its GET
\* succeeding) rejects with a token mismatch, writes no backup, sends no PUT
\* and leaves the remote object as the edit left it.
C1_ChangedDuplicatesRejected ==
    [][\A r \in issued :
          (/\ PresentedTo(r)
           /\ PreviewScan(remote[SlotOf(r.customer, r.insight_id)]).duplicates
                 # PreviewScan(r.snapshot).duplicates)
              => /\ result'.kind \in {"token_mismatch", "raised"}
                 /\ pc' = "idle"
                 /\ UNCHANGED <<backups, remote, lastPut>>]_vars

C1_Witness ==
    /\ pc = "idle"
    /\ edits > 0
    /\ req.tool = "apply"
    /\ result.kind = "token_mismatch"
    /\ \E r \in issued :
          /\ r.customer = req.customer
          /\ r.insight_id = req.insight_id
          /\ r.token = req.confirmation_token
          /\ PreviewScan(remote[SlotOf(r.customer, r.insight_id)]).duplicates
                # PreviewScan(r.snapshot).duplicates

\* C2: apply sends its PUT only once _save_backup has written the document
\* as fetched; a failed backup write ends the call with no PUT; and after
\* the PUT, failed or not, the backup file of the call is still there with
\* the fetched document.
C2_BackupBeforePut ==
    /\ [](pc = "apply_put" =>
            /\ call.backup_path \in DOMAIN backups
            /\ backups[call.backup_path].data = call.fetched
            /\ backups[call.backup_path].object_id = call.insight_id)
    /\ [][(lastPut' # lastPut /\ lastPut'.tool = "apply") =>
            /\ pc = "apply_put"
            /\ lastPut'.backup_path = call.backup_path
            /\ lastPut'.backup_path \in DOMAIN backups'
            /\ backups'[lastPut'.backup_path].data = call.fetched]_vars
    /\ [][(Starts("apply") /\ pc' = "idle") =>
            UNCHANGED <<backups, remote, lastPut>>]_vars

C2_Witness ==
    /\ result.kind = "update_failed"
    /\ lastPut.tool = "apply"
    /\ ~lastPut.ok
    /\ result.backup_path \in DOMAIN backups
    /\ backups[result.backup_path].data = remote[<<lastPut.ws, lastPut.object_id>>]
    /\ lastPut.body # remote[<<lastPut.ws, lastPut.object_id>>]

\* C3 as stated: every PUT, that of apply and that of restore, follows a
\* backup written in the same call.
C3_EveryPutBackedUp == lastPut.tool # "none" => lastPut.backed_up

\* C4: a preview sends no PUT, writes no backup file and leaves the remote
\* object as it is, and what it returns is computed from the remote object
\* as it is at the time of the call.
C4_PreviewReadOnly ==
    [][Starts("preview") =>
          /\ UNCHANGED <<remote, backups, lastPut, pc>>
          /\ result'.kind \in {"preview", "raised"}
          /\ result'.kind = "preview" =>
                LET data == remote[SlotOf(req'.customer, req'.insight_id)]
                IN  /\ result'.insight_title = data.title
                    /\ result'.current_metric_count = Len(ScannedItems(data.buckets))
                    /\ result'.duplicates_found = ApplyScan(data).duplicates
                    /\ result'.confirmation_token =
                          <<req'.insight_id, ApplyScan(data).duplicates>>]_vars

C4_Witness ==
    /\ result.kind = "preview"
    /\ edits > 0
    /\ lastPut = NoPut
    /\ DOMAIN backups = {}
    /\ \E r1 \in issued, r2 \in issued :
          /\ r1.n < r2.n
          /\ r1.customer = r2.customer
          /\ r1.snapshot # r2.snapshot
          /\ r2.snapshot = remote[SlotOf(r2.customer, r2.insight_id)]

InsertAt(s, i, x) == SubSeq(s, 1, i - 1) \o <<x>> \o SubSeq(s, i, Len(s))

\* the objects obtained by adding one measure item of a metric that the
\* measures bucket already holds
WithNewDuplicate(object) ==
    LET items == object.buckets[1].items
        metrics == {items[i].id : i \in {j \in DOMAIN items : items[j].kind = "measure"}}
    IN  {SetMeasures(object, InsertAt(items, i, m)) :
            i \in 1..(Len(items) + 1),
            m \in {x \in MeasureItems : x.id \in metrics}}

\* C5: two previews of an unchanged object return the same token, apply
\* recomputes that token for that state, and the object with one more
\* duplicate measure has another token.
C5_TokenDeterminism ==
    /\ \A r1 \in issued, r2 \in issued :
          (r1.customer = r2.customer /\ r1.insight_id = r2.insight_id
              /\ r1.snapshot = r2.snapshot) => r1.token = r2.token
    /\ \A r \in issued :
          /\ ConfirmationToken(r.insight_id, ApplyScan(r.snapshot).duplicates) = r.token
          /\ \A changed \in WithNewDuplicate(r.snapshot) :
                PreviewResult(r.insight_id, changed).confirmation_token # r.token
    /\ (pc = "apply_put" => 
          \A r \in issued :
             (r.customer = call.customer /\ r.insight_id = call.insight_id
                 /\ r.snapshot = call.fetched) => r.token = call.confirmation_token)

C5_Witness ==
    /\ pc = "apply_put"
    /\ \E r1 \in issued, r2 \in issued :
          /\ r1.n # r2.n
          /\ r1.snapshot = r2.snapshot
          /\ r1.snapshot = call.fetched
          /\ r1.token = call.confirmation_token
          /\ Len(call.duplicates) > 1

\* C6: apply with a token other than the one recomputed from the fetched
\* object returns success false, appends one audit entry with status error
\* and reason token_mismatch, writes no backup and sends no PUT; and a token
\* that does match the fetched object is accepted whatever was rejected
\* before.
C6_TokenMismatchRejected ==
    /\ [][LET data == remote[SlotOf(req'.customer, req'.insight_id)]
              expected == <<req'.insight_id, PreviewScan(data).duplicates>>
          IN  (Starts("apply") /\ req'.confirmation_token # expected) =>
                 /\ pc' = "idle"
                 /\ UNCHANGED <<backups, remote, lastPut>>
                 /\ result'.kind \in {"token_mismatch", "raised"}
                 /\ result'.kind = "token_mismatch" =>
                       /\ ~result'.success
                       /\ AppendsOneEntry(req'.customer)
                       /\ LastEntry(audit'[req'.customer]).status = "error"
                       /\ LastEntry(audit'[req'.customer]).details
                             = [reason |-> "token_mismatch"]
                       /\ LastEntry(audit'[req'.customer]).object_id
                             = req'.insight_id]_vars
    /\ [][LET data == remote[SlotOf(req'.customer, req'.insight_id)]
              expected == <<req'.insight_id, PreviewScan(data).duplicates>>
          IN  (/\ Starts("apply")
               /\ req'.confirmation_token = expected
               /\ PreviewScan(data).duplicates # <<>>) =>
                 \/ pc' = "apply_put"
                 \/ pc' = "idle" /\ result'.kind = "raised"]_vars
    /\ [][(ApplyPuts /\ lastPut'.ok) => result'.success]_vars

C6_Witness ==
    /\ result.kind = "applied"
    /\ \E i \in DOMAIN audit[req.customer], j \in DOMAIN audit[req.customer] :
          /\ i < j
          /\ audit[req.customer][i].status = "error"
          /\ audit[req.customer][i].details = [reason |-> "token_mismatch"]
          /\ audit[req.customer][j].status = "success"
          /\ audit[req.customer][j].operation = "apply_remove_duplicate_metrics"
          /\ audit[req.customer][i].object_id = audit[req.customer][j].object_id

\* the items of a measures bucket with every measure item dropped whose
\* metric id an earlier measure item of the bucket has
RECURSIVE WithoutLaterOccurrences(_, _)
WithoutLaterOccurrences(items, seen) ==
    IF items = <<>> THEN <<>>
    ELSE LET item == Head(items)
         IN  IF item.kind = "measure" /\ item.id \in seen
             THEN WithoutLaterOccurrences(Tail(items), seen)
             ELSE <<item>> \o WithoutLaterOccurrences(Tail(items),
                                  IF item.kind = "measure"
                                  THEN seen \cup {item.id} ELSE seen)

\* C7 as stated: after a successful apply the remote object is the fetched
\* one (the one in the backup of the call) with the reported duplicates,
\* and nothing else, taken out of the measures bucket.
C7_OnlyDuplicatesRemoved ==
    (pc = "idle" /\ result.kind = "applied") =>
        LET fetched == backups[result.backup_path].data
        IN  remote[<<lastPut.ws, lastPut.object_id>>] =
                SetMeasures(fetched,
                    WithoutLaterOccurrences(fetched.buckets[1].items, {}))

\* C8 as stated: apply never gets as far as the backup and the PUT with a
\* token for which an apply on the same object has already ended APPLIED,
\* REJECTED or FAILED since the object was last edited from outside.
C8_OutcomeTerminal == pc = "apply_put" => req.after = {}

\* C8 amended: apply never gets as far as the backup and the PUT with a
\* token for which an apply on the same object has already ended APPLIED or
\* REJECTED since the object was last changed by an external edit or a
\* restore.
C8_AppliedRejectedTerminal ==
    pc = "apply_put" => req.after \cap {"APPLIED", "REJECTED"} = {}

C8_Witness ==
    /\ pc = "idle"
    /\ req.tool = "apply"
    /\ "APPLIED" \in req.after
    /\ result.kind = "token_mismatch"
    /\ lastPut.tool = "apply"
    /\ lastPut.ok

\* C9 as stated: no failed request to the REST API raises out of a tool.
C9_GatewayFailuresCaught ==
    ~(result.kind = "raised" /\ result.error = "HTTPError")

\* C10: an apply call that wrote its backup has logged nothing before its
\* PUT; it sends one PUT and then appends one audit entry, with status
\* success exactly when the PUT succeeded; the entry and the result carry
\* the path of the backup of the call, with the removed duplicates on
\* success and the error on failure; a failed PUT is followed by no other
\* request.
C10_OneAuditOnePut ==
    /\ [][(Starts("apply") /\ (backups' # backups \/ pc' = "apply_put")) =>
            /\ pc' = "apply_put"
            /\ call'.backup_path \in DOMAIN backups'
            /\ UNCHANGED <<audit, lastPut, remote>>]_vars
    /\ [][(pc = "apply_put" /\ pc' = "apply_put") =>
            UNCHANGED <<audit, lastPut, backups>>]_vars
    /\ [][ApplyPuts =>
            LET entry == LastEntry(audit'[call.customer])
            IN  /\ lastPut'.n = lastPut.n + 1
                /\ AppendsOneEntry(call.customer)
                /\ entry.operation = "apply_remove_duplicate_metrics"
                /\ entry.object_id = call.insight_id
                /\ entry.status = IF lastPut'.ok THEN "success" ELSE "error"
                /\ result'.success = lastPut'.ok
                /\ entry.details.backup_path = call.backup_path
                /\ result'.backup_path = call.backup_path
                /\ call.backup_path \in DOMAIN backups'
                /\ lastPut'.ok =>
                      /\ entry.details.removed = call.duplicates
                      /\ result'.removed_duplicates = call.duplicates
                      /\ remote'[<<lastPut'.ws, lastPut'.object_id>>] = lastPut'.body
                /\ ~lastPut'.ok =>
                      /\ entry.details.error = result'.error
                      /\ remote' = remote]_vars

C10_Witness ==
    /\ pc = "idle"
    /\ result.kind = "applied"
    /\ lastPut.n = 1
    /\ Len(audit[req.customer]) > 1
    /\ LastEntry(audit[req.customer]).status = "success"
    /\ LastEntry(audit[req.customer]).details.backup_path = result.backup_path
    /\ LastEntry(audit[req.customer]).details.removed = result.removed_duplicates
    /\ result.removed_duplicates # <<>>
    /\ result.backup_path \in DOMAIN backups

\* C11: a restore from the backup path that a successful apply has just
\* returned, by the same customer and with nobody else having written the
\* object since the PUT of apply, sends the data of the backup file as the
\* whole body of its PUT, and when that PUT succeeds the remote object is
\* the document apply had fetched.
C11_RestoreRoundTrip ==
    [][(/\ Starts("restore")
        /\ result.kind = "applied"
        /\ req'.backup_path = result.backup_path
        /\ req'.customer = req.customer
        /\ remote[<<lastPut.ws, lastPut.object_id>>] = lastPut.body) =>
           /\ result'.kind \in {"restored", "restore_failed"}
           /\ lastPut'.n = lastPut.n + 1
           /\ lastPut'.ws = lastPut.ws
           /\ lastPut'.object_id = lastPut.object_id
           /\ lastPut'.body = backups[req'.backup_path].data
           /\ lastPut'.body = lastPut.fetched
           /\ result'.kind = "restored" =>
                 remote' = [remote EXCEPT ![<<lastPut.ws, lastPut.object_id>>]
                                              = lastPut.fetched]
           /\ result'.kind = "restore_failed" => remote' = remote]_vars

C11_Witness ==
    /\ result.kind = "restored"
    /\ lastPut.n = 2
    /\ edits = 0
    /\ remote[<<lastPut.ws, lastPut.object_id>>]
          = backups[result.restored_from].data
    /\ PreviewScan(remote[<<lastPut.ws, lastPut.object_id>>]).duplicates # <<>>
    /\ \E i \in DOMAIN audit[req.customer] :
          /\ audit[req.customer][i].status = "success"
          /\ audit[req.customer][i].operation = "apply_remove_duplicate_metrics"
          /\ audit[req.customer][i].details.backup_path = result.restored_from

\* C12 as stated: a backup file, once written, is never written again: no
\* later call removes it or changes what it holds.
C12_BackupsImmutable ==
    [][\A path \in DOMAIN backups :
          path \in DOMAIN backups' /\ backups'[path] = backups[path]]_vars

C14_RestoreInvalidInput ==
    [][(/\ Starts("restore")
        /\ \/ ~FileExists(req'.backup_path)
           \/ req'.backup_path = OtherTypePath) =>
           /\ result'.kind = IF req'.backup_path = OtherTypePath
                             THEN "unsupported_type" ELSE "backup_not_found"
           /\ ~result'.success
           /\ pc' = "idle"
           /\ UNCHANGED <<lastPut, remote, backups>>]_vars

C14_Witness ==
    /\ req.tool = "restore"
    /\ req.backup_path = OtherTypePath
    /\ result.kind = "unsupported_type"
    /\ lastPut.tool = "apply"
    /\ lastPut.ok
    /\ remote[<<lastPut.ws, lastPut.object_id>>] = lastPut.body

\* C15: a restore that follows a successful restore from the same backup
\* path by the same customer, its PUT succeeding too, leaves the remote
\* object as the first restore left it, whatever the object was before the
\* first restore and whatever was written to it between the two.
C15_RestoreIdempotent ==
    [][(/\ Starts("restore")
        /\ result.kind = "restored"
        /\ req.tool = "restore"
        /\ req'.backup_path = req.backup_path
        /\ req'.customer = req.customer
        /\ result'.kind = "restored") =>
           /\ lastPut'.ws = lastPut.ws
           /\ lastPut'.object_id = lastPut.object_id
           /\ lastPut'.body = lastPut.body
           /\ remote' = [remote EXCEPT ![<<lastPut.ws, lastPut.object_id>>]
                                          = lastPut.body]]_vars

C15_Witness ==
    /\ result.kind = "restored"
    /\ lastPut.n = 2
    /\ calls = 2
    /\ edits > 0
    /\ Len(audit[req.customer]) = 2
    /\ audit[req.customer][1].status = "success"
    /\ audit[req.customer][1].details.restored_from = req.backup_path
    /\ remote[<<lastPut.ws, lastPut.object_id>>] = backups[req.backup_path].data

\* C16: apply with the token that matches the fetched object, when that
\* object has no duplicate measures, returns a result with success false
\* (it does not raise), writes no backup file, sends no PUT and leaves the
\* remote object as it is.
C16_NoDuplicatesNoOp ==
    [][LET data == remote[SlotOf(req'.customer, req'.insight_id)]
       IN  (/\ Starts("apply")
            /\ PreviewScan(data).duplicates = <<>>
            /\ req'.confirmation_token = <<req'.insight_id, <<>>>>) =>
               /\ pc' = "idle"
               /\ UNCHANGED <<backups, lastPut, remote>>
               /\ result'.kind \in {"no_duplicates", "raised"}
               /\ result'.kind = "raised" => result'.error = "HTTPError"
               /\ ~result'.success]_vars

C16_Witness ==
    /\ req.tool = "apply"
    /\ result.kind = "no_duplicates"
    /\ ~result.success
    /\ req.confirmation_token = <<req.insight_id, <<>>>>
    /\ ScannedItems(remote[SlotOf(req.customer, req.insight_id)].buckets) # <<>>
    /\ DOMAIN backups = {}
    /\ lastPut = NoPut

\* the two lists hold the same entries, each as often, in whatever order
SameEntries(s, t) ==
    /\ Len(s) = Len(t)
    /\ \A i \in DOMAIN s :
          Cardinality({j \in DOMAIN s : s[j] = s[i]})
              = Cardinality({j \in DOMAIN t : t[j] = s[i]})

\* C17 as stated: a state of the object whose list of duplicates holds the
\* entries of the previewed state's list, in whatever order, has the token
\* of the previewed state.
C17_TokenOrderIndependent ==
    \A r \in issued, other \in AllObjects :
        SameEntries(PreviewScan(other).duplicates,
                    PreviewScan(r.snapshot).duplicates)
            => PreviewResult(r.insight_id, other).confirmation_token = r.token

\* the list under the key holds the value
Listed(dict, key, value) ==
    \E i \in DOMAIN dict :
        /\ dict[i].key = key
        /\ \E j \in DOMAIN dict[i].value : dict[i].value[j] = value

KeysOf(dict) == {dict[i].key : i \in DOMAIN dict}

ValuesOf(dict) ==
    UNION {{dict[i].value[j] : j \in DOMAIN dict[i].value} : i \in DOMAIN dict}

InverseIndexes(user_to_groups, group_to_users) ==
    \A u \in KeysOf(user_to_groups) \cup ValuesOf(group_to_users),
       g \in KeysOf(group_to_users) \cup ValuesOf(user_to_groups) :
        Listed(group_to_users, g, u) <=> Listed(user_to_groups, u, g)

\* C18: at every step of a run, whichever fetches raised and wherever the
\* loop of step 3 stopped, a user is listed under a group in
\* group_to_users exactly when the group is listed under the user in
\* user_to_groups; the same holds of the exported document.
C18_InverseIndexConsistent ==
    /\ InverseIndexes(graph.user_to_groups, graph.group_to_users)
    /\ output.written =>
          InverseIndexes(output.user_to_groups, output.group_to_users)

C18_Witness ==
    /\ step = "done"
    /\ <<"memberships">> \in failed
    /\ graph.user_to_groups # <<>>
    /\ Listed(graph.group_to_users, "g1", "u1")
    /\ ~Listed(graph.user_to_groups, "u1", "g2")
    /\ <<"u1", "g2">> \in
          {MembershipPairs(catalog.decl_users)[i] :
              i \in DOMAIN MembershipPairs(catalog.decl_users)}

\* what the fetches that did not raise have put into the data dict
FetchedIntact ==
    /\ <<"users">> \notin failed =>
          graph.users = Entities(catalog.users, Len(catalog.users))
    /\ <<"groups">> \notin failed =>
          graph.groups = Entities(catalog.groups, Len(catalog.groups))
    /\ <<"workspaces">> \notin failed =>
          graph.workspaces = Entities(catalog.workspaces, Len(catalog.workspaces))
    /\ <<"memberships">> \notin failed =>
          \A u \in {catalog.users[i] : i \in DOMAIN catalog.users} :
             LET declared == SelectSeq(catalog.decl_users, LAMBDA d : d.id = u)
             IN  Get(graph.user_to_groups, u) =
                    IF declared = <<>> THEN <<>> ELSE declared[1].user_groups
    /\ <<"hierarchy">> \notin failed =>
          \A i \in DOMAIN catalog.decl_groups :
             \A j \in DOMAIN catalog.decl_groups[i].parents :
                Listed(graph.group_hierarchy, catalog.decl_groups[i].parents[j],
                       catalog.decl_groups[i].id)
    /\ \A ws_id \in Ids(graph.workspaces) :
          <<"permissions", ws_id>> \notin failed =>
             LET held == Get(catalog.permissions, ws_id)
             IN  Get(graph.workspace_permissions, ws_id) =
                    [i \in DOMAIN held |-> PermEntry(ws_id, held[i])]
    /\ \A id \in Ids(graph.users) :
          <<"user_permissions", id>> \notin failed =>
             /\ Has(graph.user_permissions, id)
             /\ Get(graph.user_permissions, id) = Get(catalog.user_permissions, id)
    /\ \A id \in Ids(graph.groups) :
          <<"group_permissions", id>> \notin failed =>
             /\ Has(graph.group_permissions, id)
             /\ Get(graph.group_permissions, id) = Get(catalog.group_permissions, id)

\* C19: whichever fetches of steps 1 to 7 raise, the script goes on: it
\* gets to the summary and writes the JSON document, and the document has
\* the data dict and the anomalies as they are then, with everything in it
\* that the fetches that did not raise have returned.
C19_FailSoft ==
    /\ <>(step = "done")
    /\ [](step = "done" =>
            /\ output.written
            /\ summary.users = Len(graph.users)
            /\ summary.anomalies = Len(anomalies)
            /\ output.users = graph.users
            /\ output.groups = graph.groups
            /\ output.workspaces = graph.workspaces
            /\ output.user_to_groups = graph.user_to_groups
            /\ output.group_to_users = graph.group_to_users
            /\ output.group_hierarchy = graph.group_hierarchy
            /\ output.workspace_permissions = graph.workspace_permissions
            /\ output.user_permissions = graph.user_permissions
            /\ output.group_permissions = graph.group_permissions
            /\ output.anomalies = anomalies
            /\ FetchedIntact)

C19_Witness ==
    /\ step = "done"
    /\ output.written
    /\ {<<"users">>, <<"groups">>, <<"memberships">>, <<"hierarchy">>,
         <<"workspaces">>, <<"permissions", "w1">>, <<"user_permissions", "u1">>,
         <<"group_permissions", "g1">>} \subseteq failed
    /\ output.users = <<Entity("u1")>>
    /\ output.workspace_permissions = <<>>

Reported(text) == \E i \in DOMAIN anomalies : anomalies[i] = text

NoMembers(gid) ==
    \A i \in DOMAIN graph.group_to_users :
       graph.group_to_users[i].key = gid => graph.group_to_users[i].value = <<>>

NoChildren(gid) ==
    \A i \in DOMAIN graph.group_hierarchy :
       graph.group_hierarchy[i].key = gid => graph.group_hierarchy[i].value = <<>>

NeverGroupAssignee(gid) ==
    \A i \in DOMAIN graph.workspace_permissions :
       \A j \in DOMAIN graph.workspace_permissions[i].value :
          LET entry == graph.workspace_permissions[i].value[j]
          IN  ~(entry.assignee_type = "userGroup" /\ entry.assignee_id = gid)

Occurrences(list, x) == Cardinality({i \in DOMAIN list : list[i] = x})

\* two lists of group ids that sort to the same tuple
SameSortedTuple(a, b) ==
    /\ Len(a) = Len(b)
    /\ \A i \in DOMAIN a : Occurrences(a, a[i]) = Occurrences(b, a[i])

\* two users of user_to_groups with the same non-empty sorted tuple of groups
SharedPattern(dict) ==
    \E i, j \in DOMAIN dict :
       /\ i # j
       /\ dict[i].value # <<>>
       /\ SameSortedTuple(dict[i].value, dict[j].value)

FindingKinds == {"Direct user permission: ", "User ", "Workspace ", "Orphaned group: "}

\* C21: once the anomaly checks have run on a data dict in which more than
\* one user has the same non-empty sorted tuple of group ids, the anomaly
\* list holds a finding of the fifth detector, one that is not a finding of
\* the detectors 1 to 4, and the exported document and the summary's count
\* include it.
C21_DuplicatePatternReported ==
    (step = "done" /\ SharedPattern(graph.user_to_groups)) =>
       /\ \E i \in DOMAIN anomalies : anomalies[i][1] \notin FindingKinds
       /\ \E i \in DOMAIN output.anomalies :
             output.anomalies[i][1] \notin FindingKinds
       /\ summary.anomalies >
             Cardinality({i \in DOMAIN anomalies : anomalies[i][1] \in FindingKinds})

\* the detector a finding comes from
Detector(finding) ==
    CASE finding[1] = "Direct user permission: " -> 1
      [] finding[1] = "User " -> 2
      [] finding[1] = "Workspace " -> 3
      [] finding[1] = "Orphaned group: " -> 4

FindingsOf(detector) == SelectSeq(anomalies, LAMBDA f : Detector(f) = detector)

\* the places <<workspace, entry>> of the index that hold a user's assignment
DirectPlaces ==
    UNION {{<<w, k>> : k \in {n \in DOMAIN graph.workspace_permissions[w].value :
                                graph.workspace_permissions[w].value[n].assignee_type
                                   = "user"}} :
           w \in DOMAIN graph.workspace_permissions}

Before(p, q) == p[1] < q[1] \/ (p[1] = q[1] /\ p[2] < q[2])

PlaceOfKey(dict, key) == CHOOSE i \in DOMAIN dict : dict[i].key = key

PlaceOfId(entities, id) == CHOOSE i \in DOMAIN entities : entities[i].id = id

\* C22: once the anomaly checks have run, the anomaly list has the findings
\* of detector 1, then those of detector 2, of detector 3 and of detector 4.
\* The direct-assignment
\* findings are the user assignments of the index in the order of its
\* workspaces and of their lists, the over-privileged users come in the
\* order of user_to_groups, the unprotected workspaces in the order of the
\* workspaces list and the orphaned groups in the order of the groups list.
C22_AnomalyOrder ==
    step \in {"summary", "export", "done"} =>
       /\ \A i, j \in DOMAIN anomalies :
             i < j => Detector(anomalies[i]) <= Detector(anomalies[j])
       /\ Len(FindingsOf(1)) = Cardinality(DirectPlaces)
       /\ \A p \in DirectPlaces :
             LET entry == graph.workspace_permissions[p[1]].value[p[2]]
                 n == Cardinality({q \in DirectPlaces : Before(q, p)}) + 1
             IN  FindingsOf(1)[n] =
                    <<"Direct user permission: ", entry.assignee_id, " has '",
                      entry.name, "' on ", graph.workspace_permissions[p[1]].key>>
       /\ \A i, j \in DOMAIN FindingsOf(2) :
             i < j => PlaceOfKey(graph.user_to_groups, FindingsOf(2)[i][2])
                         < PlaceOfKey(graph.user_to_groups, FindingsOf(2)[j][2])
       /\ \A i, j \in DOMAIN FindingsOf(3) :
             i < j => PlaceOfId(graph.workspaces, FindingsOf(3)[i][2])
                         < PlaceOfId(graph.workspaces, FindingsOf(3)[j][2])
       /\ \A i, j \in DOMAIN FindingsOf(4) :
             i < j => PlaceOfId(graph.groups, FindingsOf(4)[i][2])
                         < PlaceOfId(graph.groups, FindingsOf(4)[j][2])

C22_Witness ==
    /\ step = "done"
    /\ Len(FindingsOf(1)) = 2
    /\ Len(FindingsOf(2)) = 2
    /\ Len(FindingsOf(3)) = 1
    /\ Len(FindingsOf(4)) = 2

\* every entry of the index is under a fetched workspace and carries its id
AssignmentsOfFetched(workspace_permissions, workspaces) ==
    \A i \in DOMAIN workspace_permissions :
       /\ \E w \in DOMAIN workspaces :
             workspaces[w].id = workspace_permissions[i].key
       /\ \A k \in DOMAIN workspace_permissions[i].value :
             workspace_permissions[i].value[k].workspace_id
                = workspace_permissions[i].key

\* C23: at every step of a run, whichever fetches failed, and in the
\* exported document, every assignment of workspace_permissions is stored
\* under the id of a workspace of the workspaces list and carries that id.
C23_AssignmentsOfFetchedWorkspaces ==
    /\ AssignmentsOfFetched(graph.workspace_permissions, graph.workspaces)
    /\ output.written =>
          AssignmentsOfFetched(output.workspace_permissions, output.workspaces)

C23_Witness ==
    /\ step = "done"
    /\ <<"workspaces">> \in failed
    /\ graph.workspaces = <<Entity("w1")>>
    /\ graph.workspace_permissions # <<>>
    /\ Get(catalog.permissions, "w2") # <<>>

NoAssignments(ws_id) ==
    \A i \in DOMAIN graph.workspace_permissions :
       graph.workspace_permissions[i].key = ws_id =>
          graph.workspace_permissions[i].value = <<>>

\* C24: once the anomaly checks have run, a fetched workspace is listed as
\* "Workspace <id> has no explicit permissions" exactly when the index holds
\* no assignment for it, be it that it has no key there; and the checks
\* leave the index as it was, without a key more.
C24_UnprotectedWorkspaces ==
    /\ [](step \in {"summary", "export", "done"} =>
            \A ws_id \in Ids(graph.workspaces) :
               Reported(<<"Workspace ", ws_id, " has no explicit permissions">>)
                  <=> NoAssignments(ws_id))
    /\ [][step = "detect" =>
             graph'.workspace_permissions = graph.workspace_permissions]_vars

C24_Witness ==
    /\ step = "done"
    /\ <<"permissions", "w1">> \in failed
    /\ Get(catalog.permissions, "w1") # <<>>
    /\ \A i \in DOMAIN output.workspace_permissions :
          output.workspace_permissions[i].key # "w1"
    /\ Reported(<<"Workspace ", "w1", " has no explicit permissions">>)
    /\ "w2" \in Ids(graph.workspaces)
    /\ ~Reported(<<"Workspace ", "w2", " has no explicit permissions">>)

\* the measure items of the measures section, in order
MeasuresOf(object) ==
    SelectSeq(object.buckets[1].items, LAMBDA item : item.kind = "measure")

\* the places of the items whose metric id an earlier item has already
LaterOccurrences(items) ==
    {j \in DOMAIN items :
        /\ items[j].id # None
        /\ \E i \in 1..(j - 1) : items[i].id = items[j].id}

FirstOccurrence(items, j) ==
    CHOOSE i \in DOMAIN items :
       /\ items[i].id = items[j].id
       /\ \A k \in 1..(i - 1) : items[k].id # items[j].id

\* the duplicates of metrics are the later occurrences, in the order of the
\* items, each with the local identifier of the first item of its metric
ListsLaterOccurrences(duplicates, items) ==
    LET listed == SelectSeq(duplicates, LAMBDA e : e.metric_id # None)
        later == LaterOccurrences(items)
    IN  /\ Len(listed) = Cardinality(later)
        /\ \A j \in later :
              listed[Cardinality({k \in later : k < j}) + 1] =
                 [local_identifier |-> items[j].localIdentifier,
                  metric_id |-> items[j].id,
                  title |-> items[j].title,
                  duplicate_of |->
                      items[FirstOccurrence(items, j)].localIdentifier]

\* C25: the duplicates preview reports and the duplicates apply removes are,
\* for the metric ids of the measures section, the items after the first one
\* of their metric id, in the order of the section, each with duplicate_of
\* the local identifier of that first item; and apply computes for an object
\* the list preview has reported for it.
C25_DuplicateDetection ==
    /\ result.kind = "preview" =>
          ListsLaterOccurrences(result.duplicates_found,
              MeasuresOf(remote[SlotOf(req.customer, req.insight_id)]))
    /\ pc = "apply_put" =>
          ListsLaterOccurrences(call.duplicates, MeasuresOf(call.fetched))
    /\ (pc = "apply_put" /\ result.kind = "preview") =>
          call.duplicates = result.duplicates_found

C25_Witness ==
    /\ pc = "apply_put"
    /\ result.kind = "preview"
    /\ Len(call.duplicates) = 2
    /\ call.duplicates[1].local_identifier = "m2"
    /\ call.duplicates[2].local_identifier = None
    /\ call.duplicates[2].duplicate_of = "m1"

\* the measure items of the measures section that refer to no metric
WithoutMetric(object) == SelectSeq(MeasuresOf(object), LAMBDA item : item.id = None)

\* C27: preview reports no measure item without a metric reference as a
\* duplicate, and a successful apply leaves every such item of the fetched
\* object in the measures section.
C27_NoMetricNeverDuplicate ==
    /\ result.kind = "preview" =>
          \A i \in DOMAIN result.duplicates_found :
             result.duplicates_found[i].metric_id # None
    /\ result.kind = "applied" =>
          WithoutMetric(remote[<<lastPut.ws, lastPut.object_id>>])
             = WithoutMetric(lastPut.fetched)

\* C26: what apply does is a function of the object id, the token and the
\* remote object it fetches (and of the clock, for the name of the backup
\* file): whether and how often preview was called before, it rejects a
\* token that is not that of the fetched object, refuses an object without
\* duplicates, and else backs up the fetched object and PUTs it without the
\* duplicates.
C26_Stateless ==
    /\ [][Starts("apply") =>
            LET object == remote[SlotOf(req'.customer, req'.insight_id)]
                duplicates == ApplyScan(object).duplicates
                path == [customer |-> req'.customer,
                         object_type |-> "visualizationObject",
                         short_id |-> ShortId(req'.insight_id),
                         timestamp |-> clock]
            IN  IF req'.confirmation_token # <<req'.insight_id, duplicates>>
                THEN /\ result'.kind = "token_mismatch"
                     /\ pc' = "idle" /\ backups' = backups
                ELSE IF duplicates = <<>>
                THEN /\ result'.kind = "no_duplicates"
                     /\ pc' = "idle" /\ backups' = backups
                ELSE /\ pc' = "apply_put"
                     /\ call'.data = RemoveDuplicates(object, duplicates)
                     /\ call'.duplicates = duplicates
                     /\ path \in DOMAIN backups'
                     /\ backups'[path].data = object
                     /\ \A other \in DOMAIN backups \ {path} :
                           other \in DOMAIN backups' /\ backups'[other] = backups[other]]_vars
    /\ [][ApplyPuts =>
            /\ lastPut'.body = call.data
            /\ result'.kind = "applied"
            /\ result'.removed_duplicates = call.duplicates
            /\ remote' = [remote EXCEPT
                    ![SlotOf(call.customer, call.insight_id)] = call.data]]_vars

C26_Witness ==
    /\ result.kind = "applied"
    /\ issued = {}
    /\ lastPut.body # lastPut.fetched

\* C28: the PUT of a restore goes to the workspace of the customer that the
\* backup file names, whichever customer the restore was called for.
C28_RestoreIntoBackupsWorkspace ==
    [][(Starts("restore") /\ lastPut'.n # lastPut.n) =>
          lastPut'.ws = WorkspaceOf(backups[req'.backup_path].customer)]_vars

\* C29: after a successful apply, the metrics_after_count that preview gives
\* for the fetched object, the new_metric_count that apply has returned and
\* the number of measure items in the measures section of the object as it
\* now is are the same number.
C29_CountAgreement ==
    (pc = "idle" /\ result.kind = "applied") =>
       LET after == PreviewResult(lastPut.object_id, lastPut.fetched).metrics_after_count
           left == Len(MeasuresOf(remote[<<lastPut.ws, lastPut.object_id>>]))
       IN  /\ after = result.new_metric_count
           /\ result.new_metric_count = left

\* C30: a successful PUT of apply leaves in the remote object what the
\* object held immediately before the PUT, less the duplicates, and the
\* backup of the call holds the object as it was immediately before the PUT.
C30_NoLostUpdate ==
    [][(ApplyPuts /\ result'.kind = "applied") =>
          LET slot == SlotOf(call.customer, call.insight_id)
          IN  /\ remote'[slot] = RemoveDuplicates(remote[slot], call.duplicates)
              /\ backups[call.backup_path].data = remote[slot]]_vars

====
